---- MODULE Spec2Model ----
(***************************************************************************)
(* Model of the two release tools of appfeat/gitgo:                        *)
(*   gitgo  (src/gitgo/__main__.py)  and  gup  (src/gup.py).               *)
(* Text (tag names, commit messages) is modelled as sequences of           *)
(* one-character strings, so that parsing, formatting, stripping and       *)
(* truncation are computed the way the Python code computes them.          *)
(***************************************************************************)
EXTENDS Integers, Sequences, FiniteSets, TLC

\* ---------------------------------------------------------------------
\* Bounds of the model
\* ---------------------------------------------------------------------
MaxMajor == 1
MaxMinor == 2
MaxPatch == 3
MaxRun == 2
MaxSegs == 5
MaxFiles == 6

\* ---------------------------------------------------------------------
\* Generic helpers on integers and character sequences
\* ---------------------------------------------------------------------
SetMin(S) == CHOOSE x \in S : \A y \in S : x <= y
SetMax(S) == CHOOSE x \in S : \A y \in S : x >= y

DigitChars == <<"0", "1", "2", "3", "4", "5", "6", "7", "8", "9">>
IsDigit(c) == \E d \in 1..10 : DigitChars[d] = c
DigitVal(c) == (CHOOSE d \in 1..10 : DigitChars[d] = c) - 1

\* Python str(n) for a non-negative integer, as used by the f-strings.
RECURSIVE Str(_)
Str(n) == IF n < 10 THEN <<DigitChars[n + 1]>>
          ELSE Str(n \div 10) \o <<DigitChars[(n % 10) + 1]>>

\* Python int(s) for a non-empty string of decimal digits.
RECURSIVE IntOf(_)
IntOf(s) == IF s = <<>> THEN 0
            ELSE IntOf(SubSeq(s, 1, Len(s) - 1)) * 10 + DigitVal(s[Len(s)])

\* Length of the maximal run of digits of s that starts at index i (\d+).
DigitRun(s, i) ==
    SetMin({j \in i..(Len(s) + 1) : j = Len(s) + 1 \/ ~IsDigit(s[j])}) - i

\* Length of the maximal run of the letter d of s that starts at index i.
LetterRun(s, i) ==
    SetMin({j \in i..(Len(s) + 1) : j = Len(s) + 1 \/ s[j] # "d"}) - i

\* f"v{major}.{minor}.{patch}"
Fmt(major, minor, patch) ==
    <<"v">> \o Str(major) \o <<".">> \o Str(minor) \o <<".">> \o Str(patch)

V000 == <<"v", "0", ".", "0", ".", "0">>

\* ---------------------------------------------------------------------
\* Version parsing
\* ---------------------------------------------------------------------
\* The match of the pattern  v(\d+)\.(\d+)\.(\d+)  at offset o of s:
\* the three groups, or <<>> (None) when the pattern does not match there.
MatchAt(s, o) ==
    LET n1 == DigitRun(s, o + 2)
        p1 == o + 2 + n1
        n2 == DigitRun(s, p1 + 1)
        p2 == p1 + 1 + n2
        n3 == DigitRun(s, p2 + 1)
    IN IF /\ Len(s) >= o + 1
          /\ s[o + 1] = "v"
          /\ n1 >= 1
          /\ p1 <= Len(s)
          /\ s[p1] = "."
          /\ n2 >= 1
          /\ p2 <= Len(s)
          /\ s[p2] = "."
          /\ n3 >= 1
       THEN <<SubSeq(s, o + 2, p1 - 1),
              SubSeq(s, p1 + 1, p2 - 1),
              SubSeq(s, p2 + 1, p2 + n3)>>
       ELSE <<>>

\* A matcher that looks for the pattern anywhere in s (re.search).
re_search(s) ==
    LET offs == {o \in 0..Len(s) : MatchAt(s, o) # <<>>}
    IN IF offs = {} THEN <<>> ELSE MatchAt(s, SetMin(offs))

\* gitgo: re.match(r"v(\d+)\.(\d+)\.(\d+)", last), anchored at the start
\* of the string only.
re_match(s) == MatchAt(s, 0)

\* gitgo: major, minor, patch = map(int, m.groups()) if m else (0, 0, 0)
parse_version(s) ==
    LET m == re_match(s)
    IN IF m # <<>> THEN <<IntOf(m[1]), IntOf(m[2]), IntOf(m[3])>>
       ELSE <<0, 0, 0>>

\* gup: re.match(r"v(\\d+)\\.(\\d+)\\.(\\d+)", last).  In a raw string the
\* doubled backslash is a literal backslash, so the pattern reads
\*   v  (\ d+)  \ <any>  (\ d+)  \ <any>  (\ d+)
\* with "d" the letter d: TRUE iff s starts with such a text.
gup_re_match(s) ==
    LET n1 == LetterRun(s, 3)
        q1 == 3 + n1
        n2 == LetterRun(s, q1 + 3)
        q2 == q1 + 3 + n2
        n3 == LetterRun(s, q2 + 3)
    IN /\ Len(s) >= 2
       /\ s[1] = "v"
       /\ s[2] = "\\"
       /\ n1 >= 1
       /\ Len(s) >= q1 + 2
       /\ s[q1] = "\\"
       /\ s[q1 + 1] # "\n"
       /\ s[q1 + 2] = "\\"
       /\ n2 >= 1
       /\ Len(s) >= q2 + 2
       /\ s[q2] = "\\"
       /\ s[q2 + 1] # "\n"
       /\ s[q2 + 2] = "\\"
       /\ n3 >= 1

\* ---------------------------------------------------------------------
\* Commit summary enforcement
\* ---------------------------------------------------------------------
SummaryLimit == 72

\* The whitespace that str.strip() removes (of the characters modelled).
IsSpace(c) == c \in {" ", "\n", "\t"}

\* Python s.strip()
strip(s) ==
    IF \A i \in 1..Len(s) : IsSpace(s[i]) THEN <<>>
    ELSE LET b == CHOOSE i \in 1..Len(s) :
                    ~IsSpace(s[i]) /\ \A j \in 1..(i - 1) : IsSpace(s[j])
             e == CHOOSE i \in 1..Len(s) :
                    ~IsSpace(s[i]) /\ \A j \in (i + 1)..Len(s) : IsSpace(s[j])
         IN SubSeq(s, b, e)

\* Python s.splitlines() for the line break "\n": a final line break does
\* not open another line, and the empty text has no line.
RECURSIVE splitlines(_)
splitlines(s) ==
    IF s = <<>> THEN <<>>
    ELSE LET nl == {i \in 1..Len(s) : s[i] = "\n"}
         IN IF nl = {} THEN <<s>>
            ELSE <<SubSeq(s, 1, SetMin(nl) - 1)>>
                     \o splitlines(SubSeq(s, SetMin(nl) + 1, Len(s)))

\* Python "\n".join(lines)
RECURSIVE join(_)
join(lines) ==
    IF lines = <<>> THEN <<>>
    ELSE IF Len(lines) = 1 THEN lines[1]
    ELSE lines[1] \o <<"\n">> \o join(Tail(lines))

HasBlank(s) == \E i \in 1..Len(s) : s[i] = " "

\* Python s.rsplit(" ", 1)[0] for a text that contains a space
rsplit_head(s) ==
    SubSeq(s, 1, SetMax({i \in 1..Len(s) : s[i] = " "}) - 1)

\* Python s.split(" ", 1)[0] for a text that contains a space
split_head(s) ==
    SubSeq(s, 1, SetMin({i \in 1..Len(s) : s[i] = " "}) - 1)

\* A normalizer that trims back to the first space of the cut.
enforce_summary_limit_first_space(msg, limit) ==
    LET lines == splitlines(strip(msg))
        s == lines[1]
        cut == SubSeq(s, 1, limit)
    IN IF lines = <<>> THEN msg
       ELSE IF Len(s) <= limit THEN msg
       ELSE join(<<IF HasBlank(cut) THEN split_head(cut) ELSE cut>>
                     \o Tail(lines))

\* enforce_summary_limit(msg, limit=72), gitgo lines 120-131 and gup
\* lines 26-37 (the same text in both files)
enforce_summary_limit(msg, limit) ==
    LET lines == splitlines(strip(msg))
        s == lines[1]
        cut == SubSeq(s, 1, limit)
    IN IF lines = <<>> THEN msg
       ELSE IF Len(s) <= limit THEN msg
       ELSE join(<<IF HasBlank(cut) THEN rsplit_head(cut) ELSE cut>>
                     \o Tail(lines))

\* ---------------------------------------------------------------------
\* Identity
\* ---------------------------------------------------------------------
\* A configuration key that a scope does not hold.  A key that is set
\* holds a text, which may be empty.
Unset == <<"unset">>

\* safe(...) around a reading command: "" when git finds no value
safe(v) == IF v = Unset THEN <<>> ELSE v

\* git_config(key), gitgo lines 78-79, and safe("git config <key>") in gup:
\* `git config <key>` names no scope, so git answers from the merged
\* configuration, where the repository-scoped value overrides the global
\* one and the global one is used when the repository has none.
git_config(local, global) == IF local # Unset THEN local ELSE safe(global)

\* read_identity(): gitgo lines 136-145, gup lines 40-49.  ln, le are the
\* repository-scoped values of user.name and user.email and gn, ge the
\* global ones; the second pair of reads passes --global.
read_identity(ln, le, gn, ge) ==
    LET n == git_config(ln, gn)
        e == git_config(le, ge)
    IN IF n # <<>> \/ e # <<>> THEN <<n, e, "repo">>
       ELSE IF safe(gn) # <<>> \/ safe(ge) # <<>>
            THEN <<safe(gn), safe(ge), "global">>
       ELSE <<<<>>, <<>>, "none">>

\* prompt_identity(n, e) for the two typed answers
prompt_identity(n, e, tn, te) ==
    <<IF strip(tn) # <<>> THEN strip(tn) ELSE n,
      IF strip(te) # <<>> THEN strip(te) ELSE e>>

\* ---------------------------------------------------------------------
\* gup: models, timeout, message generation
\* ---------------------------------------------------------------------
Contains(s, sub) ==
    \E i \in 0..(Len(s) - Len(sub)) : SubSeq(s, i + 1, i + Len(sub)) = sub

IsInt(s) == s # <<>> /\ \A i \in 1..Len(s) : IsDigit(s[i])

Gemini == <<"g", "e", "m", "i", "n", "i">>
Flash == <<"f", "l", "a", "s", "h">>
Lite == <<"l", "i", "t", "e">>
Mini == <<"m", "i", "n", "i">>

\* gup model_score(m).  The version pattern r"(\\d+)\\.(\\d+)" asks for
\* literal backslashes, which no model identifier holds, so no version
\* bonus is ever added.
model_score(id) ==
    (IF Contains(id, Gemini) THEN 1000 ELSE 500)
    + (IF Contains(id, Flash) THEN 50 ELSE 0)
    + (IF Contains(id, Lite) \/ Contains(id, Mini) THEN 30 ELSE 0)

\* The sublist of ms whose members satisfy / do not satisfy "gemini" in id
RECURSIVE FamilyOf(_, _)
FamilyOf(ms, gem) ==
    IF ms = <<>> THEN <<>>
    ELSE (IF Contains(ms[1], Gemini) = gem THEN <<ms[1]>> ELSE <<>>)
             \o FamilyOf(Tail(ms), gem)

\* max(ms, key=model_score, default=None): the first member of top score
BestOf(ms) ==
    IF ms = <<>> THEN <<>>
    ELSE ms[CHOOSE i \in 1..Len(ms) :
               /\ \A j \in 1..Len(ms) : model_score(ms[j]) <= model_score(ms[i])
               /\ \A j \in 1..(i - 1) : model_score(ms[j]) < model_score(ms[i])]

\* The quick choices that pick_model offers
Options(ms) ==
    LET g == BestOf(FamilyOf(ms, TRUE))
        o == BestOf(FamilyOf(ms, FALSE))
    IN (IF g # <<>> THEN <<g>> ELSE <<>>) \o (IF o # <<>> THEN <<o>> ELSE <<>>)

Raise == <<"!">>

\* gup pick_model(models) for the typed answers c and sel: the chosen
\* identifier, or Raise when the function raises (int() of a text that is
\* no number, an index out of range).
pick_model(ms, c, sel) ==
    IF strip(c) = <<"3">>
    THEN IF ~IsInt(strip(sel)) THEN Raise
         ELSE IF IntOf(strip(sel)) = 0
              THEN (IF ms = <<>> THEN Raise ELSE ms[Len(ms)])
         ELSE IF IntOf(strip(sel)) <= Len(ms) THEN ms[IntOf(strip(sel))]
         ELSE Raise
    ELSE IF IsInt(strip(c)) /\ 1 <= IntOf(strip(c))
              /\ IntOf(strip(c)) <= Len(Options(ms))
         THEN Options(ms)[IntOf(strip(c))]
    ELSE IF Options(ms) = <<>> THEN Raise
    ELSE Options(ms)[1]

\* min(60, max(1, t))
Clamp(t) == IF t < 1 THEN 1 ELSE IF t > 60 THEN 60 ELSE t

\* gup configure_timeout(current) for the typed answer
configure_timeout(current, typed) ==
    IF strip(typed) = <<>> THEN current
    ELSE IF IsInt(strip(typed)) THEN Str(Clamp(IntOf(strip(typed))))
    ELSE current

DefaultTimeout == <<"1", "2">>

\* A fallback message with a wording of its own for more than five files
fallback_message_three_way(boot, n) ==
    IF boot THEN <<"I", "n", "i", "t", "i", "a", "l", " ", "c", "o", "m", "m", "i", "t">>
    ELSE IF n = 1 THEN <<"U", "p", "d", "a", "t", "e", " ", "p", "r", "o", "j", "e", "c", "t", " ", "c", "o", "n", "f", "i", "g", "u", "r", "a", "t", "i", "o", "n">>
    ELSE IF n <= 5 THEN <<"U", "p", "d", "a", "t", "e", " ">> \o Str(n) \o <<" ", "p", "r", "o", "j", "e", "c", "t", " ", "f", "i", "l", "e", "s">>
    ELSE <<"U", "p", "d", "a", "t", "e", " ">> \o Str(n) \o <<" ", "f", "i", "l", "e", "s">>

\* gup lines 211-215
fallback_message(boot, n) ==
    IF boot THEN <<"I", "n", "i", "t", "i", "a", "l", " ", "c", "o", "m", "m", "i", "t">>
    ELSE IF n = 1 THEN <<"U", "p", "d", "a", "t", "e", " ", "p", "r", "o", "j", "e", "c", "t", " ", "c", "o", "n", "f", "i", "g", "u", "r", "a", "t", "i", "o", "n">>
    ELSE <<"U", "p", "d", "a", "t", "e", " ">> \o Str(n) \o <<" ", "p", "r", "o", "j", "e", "c", "t", " ", "f", "i", "l", "e", "s">>

\* How a call of generate_message ends, for the current draft cur, the
\* selected model mdl (<<>> is None), the timeout text tmo and what the
\* external tool does: res is "done" (it ends in time and prints output),
\* "timeout" or "error" (it cannot be started).
attempt_outcome(mdl, tmo, res, output) ==
    IF mdl = <<>> THEN "nomodel"
    ELSE IF res = "error" THEN "error"
    ELSE IF ~IsInt(tmo) THEN "error"
    ELSE IF res = "timeout" THEN "timeout"
    ELSE IF strip(output) # <<>> THEN "ok"
    ELSE "empty"

\* A generate_message that hands back an empty draft when it fails.
generate_message_drops_draft(cur, mdl, tmo, res, output) ==
    LET o == attempt_outcome(mdl, tmo, res, output)
    IN IF o = "ok"
       THEN <<enforce_summary_limit(strip(output), SummaryLimit), "">>
       ELSE <<<<>>, o>>

\* gup generate_message(), lines 217-246: the pair (message, warning), the
\* warning "" being None.
generate_message(cur, mdl, tmo, res, output) ==
    LET o == attempt_outcome(mdl, tmo, res, output)
    IN IF o = "ok"
       THEN <<enforce_summary_limit(strip(output), SummaryLimit), "">>
       ELSE <<cur, o>>

\* ---------------------------------------------------------------------
\* State
\* ---------------------------------------------------------------------
VARIABLES
    variant,        \* "gitgo" or "gup": which tool runs
    pc,             \* position of the run in the script
    bootstrap,      \* not has_commits()
    describe,       \* output of `git describe --tags --abbrev=0` ("" if none)
    tags,           \* the tag names that exist in the repository
    last,           \* the variable last
    major, minor, patch,
    next_version,   \* the variable next_version (<<>> before it is set)
    tested,         \* number of candidates handed to tag_exists
    raw,            \* the message handed to the normalizer on its own
    commit_msg,     \* the variable commit_msg
    cfg_name, cfg_email,   \* repository-scoped user.name and user.email
    glob_name, glob_email, \* global user.name and user.email
    name, email, source,   \* the resolved identity
    nfiles,         \* len(files): the number of staged files
    models,         \* gup: the identifiers listed by `llm models`
    cfg_model,      \* gup: the configuration key gup.model
    cfg_timeout,    \* gup: the configuration key gup.timeout
    cfg_before,     \* the configuration keys as they were when the run began
    model,          \* gup: the selected model (<<>> is None)
    timeout,        \* gup: the variable timeout
    ai_warning,     \* gup: the variable ai_warning ("" is None)
    attempt,        \* gup: how the generate_message call of the latest
                    \*      step ended ("" if the step made none)
    committed,      \* the commit of this run exists
    tagged,         \* the tag of this run exists
    has_origin,     \* a remote named origin is configured
    branch,         \* the variable branch
    pushed_branch,  \* the branch reached the remote
    pushed_tag,     \* the tag reached the remote
    ending,         \* how the run ended ("" while it runs)
    exit_code,      \* exit status (-1 while it runs)
    out,            \* the report lines that matter, as records
    log             \* the write steps attempted, in order

versionVars == <<bootstrap, describe, last, major, minor, patch,
                 next_version, tested>>
msgVars == <<raw, commit_msg>>
idVars == <<cfg_name, cfg_email, glob_name, glob_email, name, email,
            source>>
aiVars == <<models, cfg_model, cfg_timeout, model, timeout, ai_warning,
            attempt>>
repoVars == <<committed, tagged, has_origin, branch, pushed_branch,
              pushed_tag>>
endVars == <<ending, exit_code, out, log>>
runVars == <<idVars, nfiles, aiVars, repoVars, endVars>>
vars == <<variant, pc, tags, versionVars, msgVars, runVars, cfg_before>>

\* The configuration keys that the tools write
Config ==
    [name |-> cfg_name, email |-> cfg_email, model |-> cfg_model,
     timeout |-> cfg_timeout]

\* The run variables before anything has happened
RunIdle ==
    /\ cfg_name = Unset
    /\ cfg_email = Unset
    /\ glob_name = Unset
    /\ glob_email = Unset
    /\ name = <<>>
    /\ email = <<>>
    /\ source = ""
    /\ nfiles = 0
    /\ models = <<>>
    /\ cfg_model = <<>>
    /\ cfg_timeout = <<>>
    /\ model = <<>>
    /\ timeout = <<>>
    /\ ai_warning = ""
    /\ attempt = ""
    /\ committed = FALSE
    /\ tagged = FALSE
    /\ has_origin = FALSE
    /\ branch = ""
    /\ pushed_branch = FALSE
    /\ pushed_tag = FALSE
    /\ ending = ""
    /\ exit_code = -1
    /\ out = {}
    /\ log = <<>>
    /\ cfg_before = Config

\* ---------------------------------------------------------------------
\* Inputs of the version sequencer
\* ---------------------------------------------------------------------
Majors == 0..MaxMajor
Minors == 0..MaxMinor
Patches == (0..MaxPatch) \cup {9}

\* Tag names built around a well-formed core: the core itself, and texts
\* that differ from it the way real tag names do.
Shaped(a, b, c) ==
    { Fmt(a, b, c),
      Fmt(a, b, c) \o <<"-", "r", "c">>,
      Fmt(a, b, c) \o <<".", "7">>,
      <<"x">> \o Fmt(a, b, c),
      Tail(Fmt(a, b, c)),
      <<"v">> \o Str(a) \o <<".">> \o Str(b),
      <<"v">> \o Str(a) \o <<".">> \o Str(b) \o <<".", "x">>,
      <<"v", "0">> \o Str(a) \o <<".">> \o Str(b) \o <<".">> \o Str(c),
      <<"V">> \o Tail(Fmt(a, b, c)),
      <<"r", "e", "l">>,
      <<>> }

\* Tags that may exist besides the described one: the next MaxRun patch
\* versions after the core and after v0.0.0.
TagPool(a, b, c) ==
    {Fmt(a, b, c + k) : k \in 1..MaxRun} \cup {Fmt(0, 0, k) : k \in 1..MaxRun}

\* ---------------------------------------------------------------------
\* Version sequencer
\* ---------------------------------------------------------------------
\* A check of the wrong ref namespace: no tag is ever found.
tag_exists_other_namespace(tag, T) == FALSE

\* gitgo tag_exists(tag): git show-ref --tags --verify refs/tags/<tag>
tag_exists(tag, T) == tag \in T

\* gitgo next_free_version(major, minor, patch): the loop, one call of
\* the operator per iteration.
RECURSIVE next_free_version(_, _, _, _)
next_free_version(ma, mi, pa, T) ==
    IF ~tag_exists(Fmt(ma, mi, pa + 1), T)
    THEN Fmt(ma, mi, pa + 1)
    ELSE next_free_version(ma, mi, pa + 1, T)

\* A loop that asks tag_exists a second time before it moves on
RECURSIVE candidates_tested_rechecking(_, _, _, _)
candidates_tested_rechecking(ma, mi, pa, T) ==
    IF ~tag_exists(Fmt(ma, mi, pa + 1), T)
    THEN 1
    ELSE 2 + candidates_tested_rechecking(ma, mi, pa + 1, T)

\* The number of candidates next_free_version hands to tag_exists.
RECURSIVE candidates_tested(_, _, _, _)
candidates_tested(ma, mi, pa, T) ==
    IF ~tag_exists(Fmt(ma, mi, pa + 1), T)
    THEN 1
    ELSE 1 + candidates_tested(ma, mi, pa + 1, T)

\* gitgo line 183 / gup line 172:
\*   last = "v0.0.0" if bootstrap else safe("git describe ...") or "v0.0.0"
read_last(boot, desc) ==
    IF boot THEN V000 ELSE IF desc # <<>> THEN desc ELSE V000

\* gitgo lines 183-186, as a function of the latest tag and the tag set
gitgo_version(boot, desc, T) ==
    LET p == parse_version(read_last(boot, desc))
    IN next_free_version(p[1], p[2], p[3], T)

\* gup lines 172-175 when the pattern does not match: (0, 0, 0) and
\* next_version = f"v{major}.{minor}.{patch+1}"; no tag is consulted.
gup_version(boot, desc, T) == Fmt(0, 0, 0 + 1)

\* What each tool computes as next_version.
sequencer(var, boot, desc, T) ==
    IF var = "gitgo" THEN gitgo_version(boot, desc, T)
    ELSE gup_version(boot, desc, T)

\* gitgo lines 183-186
GitgoVersion ==
    /\ pc = "version"
    /\ variant = "gitgo"
    /\ last' = read_last(bootstrap, describe)
    /\ major' = parse_version(last')[1]
    /\ minor' = parse_version(last')[2]
    /\ patch' = parse_version(last')[3]
    /\ next_version' = next_free_version(major', minor', patch', tags)
    /\ tested' = candidates_tested(major', minor', patch', tags)
    /\ pc' = "identity"
    /\ UNCHANGED <<cfg_before, variant, tags, bootstrap, describe, msgVars, runVars>>

\* gup lines 172-175: the pattern never matches a tag name (a ref name
\* cannot contain a backslash), so the numbers are (0, 0, 0).  A text that
\* did match would make int() raise on the backslash.
GupVersion ==
    /\ pc = "version"
    /\ variant = "gup"
    /\ last' = read_last(bootstrap, describe)
    /\ IF gup_re_match(last')
       THEN /\ pc' = "crashed"
            /\ UNCHANGED <<major, minor, patch, next_version>>
       ELSE /\ major' = 0
            /\ minor' = 0
            /\ patch' = 0
            /\ next_version' = gup_version(bootstrap, describe, tags)
            /\ pc' = "identity"
    /\ UNCHANGED <<cfg_before, variant, tags, bootstrap, describe, tested, msgVars,
                   runVars>>

VersionInit ==
    /\ variant \in {"gitgo", "gup"}
    /\ pc = "version"
    /\ bootstrap \in BOOLEAN
    /\ \E a \in Majors, b \in Minors, c \in Patches :
         /\ describe \in Shaped(a, b, c)
         /\ \E extra \in SUBSET TagPool(a, b, c) :
              tags = extra \cup (IF describe = <<>> THEN {} ELSE {describe})
    /\ last = <<>>
    /\ major = 0
    /\ minor = 0
    /\ patch = 0
    /\ next_version = <<>>
    /\ tested = 0
    /\ raw = <<>>
    /\ commit_msg = <<>>
    /\ RunIdle

VersionNext == GitgoVersion \/ GupVersion

SpecVersion == VersionInit /\ [][VersionNext]_vars

\* ---------------------------------------------------------------------
\* Properties of the version sequencer
\* ---------------------------------------------------------------------
Dots(s) == {i \in 1..Len(s) : s[i] = "."}

\* s is exactly v<digits>.<digits>.<digits>
ExactForm(s) ==
    /\ Len(s) >= 6
    /\ s[1] = "v"
    /\ Cardinality(Dots(s)) = 2
    /\ \A i \in 2..Len(s) : IsDigit(s[i]) \/ s[i] = "."
    /\ s[2] # "."
    /\ s[Len(s)] # "."
    /\ \A i \in Dots(s) : i + 1 \notin Dots(s)

\* The three numbers of a text of that form.
Fields(s) ==
    LET d1 == SetMin(Dots(s))
        d2 == SetMax(Dots(s))
    IN <<IntOf(SubSeq(s, 2, d1 - 1)),
         IntOf(SubSeq(s, d1 + 1, d2 - 1)),
         IntOf(SubSeq(s, d2 + 1, Len(s)))>>

\* s starts with a text of that form
HasFormPrefix(s) == \E n \in 1..Len(s) : ExactForm(SubSeq(s, 1, n))

\* v is vMAJOR.MINOR.(PATCH+k) for the smallest k >= 1 that is unused in T
LowestUnusedAfter(v, f, T) ==
    /\ v \notin T
    /\ \E k \in 1..(Cardinality(T) + 1) :
         /\ v = Fmt(f[1], f[2], f[3] + k)
         /\ \A j \in 1..(k - 1) : Fmt(f[1], f[2], f[3] + j) \in T

\* C1: in gitgo, for a latest tag vMAJOR.MINOR.PATCH the computed version
\* is not an existing tag and is vMAJOR.MINOR.(PATCH+k) for the smallest
\* k >= 1 whose name is unused.
C1_NextFreeIsLowestUnused ==
    (variant = "gitgo" /\ pc = "identity" /\ ExactForm(last))
        => LowestUnusedAfter(next_version, Fields(last), tags)

C1_Witness ==
    /\ variant = "gitgo"
    /\ pc = "identity"
    /\ last = Fmt(1, 2, 3)
    /\ Fmt(1, 2, 4) \in tags
    /\ Fmt(1, 2, 5) \in tags
    /\ next_version = Fmt(1, 2, 6)

\* C2: in gup, for a latest tag vMAJOR.MINOR.PATCH the version used for
\* the release is the lowest unused vMAJOR.MINOR.(PATCH+k), k >= 1, so the
\* name handed to the tag step never exists already.
C2_GupLowestUnused ==
    (variant = "gup" /\ pc = "identity" /\ ExactForm(last))
        => LowestUnusedAfter(next_version, Fields(last), tags)

\* The latest-tag input is missing, empty or fails the test Form.
NoTagOr(Form(_)) == bootstrap \/ describe = <<>> \/ ~Form(describe)

\* C3 (as claimed): an input that is missing, empty or not exactly of the
\* form v<digits>.<digits>.<digits> gives the version that the input
\* v0.0.0 gives with the same existing tags.
C3_NotExactActsAsV000 ==
    (pc = "identity" /\ NoTagOr(ExactForm))
        => next_version = sequencer(variant, FALSE, V000, tags)

\* C3 (amended): an input that is missing, empty or does not begin with
\* v<digits>.<digits>.<digits> gives the version that the input v0.0.0
\* gives with the same existing tags.
C3_NoFormPrefixActsAsV000 ==
    (pc = "identity" /\ NoTagOr(HasFormPrefix))
        => next_version = sequencer(variant, FALSE, V000, tags)

C3_Witness ==
    /\ variant = "gitgo"
    /\ pc = "identity"
    /\ ~bootstrap
    /\ describe = <<"x">> \o Fmt(1, 2, 3)
    /\ Fmt(0, 0, 1) \in tags
    /\ next_version = Fmt(0, 0, 2)

\* ---------------------------------------------------------------------
\* The normalizer on its own: every message built from at most MaxSegs
\* runs of one character
\* ---------------------------------------------------------------------
Rep(c, n) == [i \in 1..n |-> c]

SegKinds ==
    { <<"a", 1>>,
      <<"a", (SummaryLimit \div 2) - 1>>,
      <<"a", SummaryLimit \div 2>>,
      <<"a", SummaryLimit - 1>>,
      <<" ", 1>>,
      <<"\n", 1>> }

RECURSIVE Expand(_)
Expand(segs) ==
    IF segs = <<>> THEN <<>>
    ELSE Rep(segs[1][1], segs[1][2]) \o Expand(Tail(segs))

MsgInputs == {Expand(segs) : segs \in UNION {[1..n -> SegKinds] : n \in 0..MaxSegs}}

SummaryInit ==
    /\ variant = "gitgo"
    /\ pc = "summary"
    /\ raw \in MsgInputs
    /\ commit_msg = <<>>
    /\ tags = {}
    /\ bootstrap = FALSE
    /\ describe = <<>>
    /\ last = <<>>
    /\ major = 0
    /\ minor = 0
    /\ patch = 0
    /\ next_version = <<>>
    /\ tested = 0
    /\ RunIdle

\* A call enforce_summary_limit(raw)
Normalize ==
    /\ pc = "summary"
    /\ commit_msg' = enforce_summary_limit(raw, SummaryLimit)
    /\ pc' = "normalized"
    /\ UNCHANGED <<cfg_before, variant, tags, versionVars, raw, runVars>>

SummaryNext == Normalize

SpecSummary == SummaryInit /\ [][SummaryNext]_vars

\* ---------------------------------------------------------------------
\* Properties of the normalizer
\* ---------------------------------------------------------------------
FirstLine(m) == IF splitlines(m) = <<>> THEN <<>> ELSE splitlines(m)[1]
RestLines(m) == IF splitlines(m) = <<>> THEN <<>> ELSE Tail(splitlines(m))
IsPrefix(r, s) == Len(r) <= Len(s) /\ r = SubSeq(s, 1, Len(r))
BlankIn(s, n) == \E i \in 1..n : i <= Len(s) /\ s[i] = " "

\* C4: for every message the result has a first line of at most 72
\* characters and its second and later lines are those of the input.
C4_FirstLineBoundedRestKept ==
    pc = "normalized"
        => /\ Len(FirstLine(commit_msg)) <= SummaryLimit
           /\ RestLines(commit_msg) = RestLines(raw)

\* C5 (as claimed): when the first line s of the message (lines[0] of
\* the function) is longer than 72 the new first line is a strict prefix
\* of s of length <= 72, namely the longest prefix of length <= 72 that is
\* followed by a space, and the 72-character cut when the first 72
\* characters hold no space.
C5_CutAtLatestBoundaryUpTo72 ==
    LET s == FirstLine(strip(raw))
        r == FirstLine(commit_msg)
        B == {n \in 0..SummaryLimit : n < Len(s) /\ s[n + 1] = " "}
    IN (pc = "normalized" /\ Len(s) > SummaryLimit)
        => /\ IsPrefix(r, s)
           /\ Len(r) < Len(s)
           /\ Len(r) <= SummaryLimit
           /\ IF BlankIn(s, SummaryLimit) THEN Len(r) = SetMax(B)
              ELSE Len(r) = SummaryLimit

\* C5 (amended): when the first line s of the message (lines[0] of the
\* function) is longer than 72 the new first line is a strict prefix of s that ends right
\* before the last space among the first 72 characters of s, and is the
\* 72-character cut when those characters hold no space.
C5_CutBeforeLastSpaceWithin72 ==
    LET s == FirstLine(strip(raw))
        r == FirstLine(commit_msg)
    IN (pc = "normalized" /\ Len(s) > SummaryLimit)
        => /\ IsPrefix(r, s)
           /\ Len(r) < Len(s)
           /\ Len(r) <= SummaryLimit
           /\ IF BlankIn(s, SummaryLimit)
              THEN /\ Len(r) < SummaryLimit
                   /\ s[Len(r) + 1] = " "
                   /\ \A i \in (Len(r) + 2)..SummaryLimit : s[i] # " "
              ELSE Len(r) = SummaryLimit

C5_Witness ==
    /\ pc = "normalized"
    /\ Len(FirstLine(strip(raw))) > SummaryLimit
    /\ BlankIn(FirstLine(strip(raw)), SummaryLimit)
    /\ FirstLine(strip(raw))[SummaryLimit + 1] = " "
    /\ Len(FirstLine(commit_msg)) = (SummaryLimit \div 2) - 1
    /\ Len(splitlines(commit_msg)) = 1

\* C6: a message whose first line has at most 72 characters is returned
\* as it is, so normalizing the result again changes nothing.
C6_ConformantUnchanged ==
    (pc = "normalized" /\ Len(FirstLine(raw)) <= SummaryLimit)
        => /\ commit_msg = raw
           /\ enforce_summary_limit(commit_msg, SummaryLimit) = commit_msg

\* ---------------------------------------------------------------------
\* The release run of gitgo (main) and of gup (the script body)
\* ---------------------------------------------------------------------
GeminiFlash == <<"g", "e", "m", "i", "n", "i", "-", "f", "l", "a", "s", "h">>
GptMini == <<"g", "p", "t", "-", "m", "i", "n", "i">>
Gpt4 == <<"g", "p", "t", "-", "4">>
OldModel == <<"o", "l", "d">>

\* What the user types and what the outside world answers
TypedIdentities == { <<<<>>, <<>>>>, <<<<"P", " ">>, <<"p">>>> }
TypedMessages ==
    { <<"f", "i", "x", "\n", "\n", "b", "o", "d", "y", " ">>,
      Rep("a", SummaryLimit + 1),
      <<" ">> \o Rep("a", SummaryLimit \div 2) \o <<" ">>
          \o Rep("b", SummaryLimit \div 2) \o <<" ", "c", "\n", "d">> }
AiOutputs ==
    { <<" ", "\n">>,
      <<"A", "d", "d", " ", "x", "\n">>,
      Rep("w", SummaryLimit - 1) \o <<" ", "w", "w", "\n", "\n", "w", "h", "y">> }
AiResults == {"done", "timeout", "error"}
PickAnswers == { <<>>, <<"2">>, <<"3">>, <<"x">> }
SelAnswers == { <<"1">>, <<"0">>, <<"9">>, <<"x">> }
TimeoutAnswers == { <<>>, <<"0">>, <<"9", "9">>, <<"z">> }
FileCounts == {0, 1, 2, MaxFiles}
Branches == {"", "dev"}
UrlAnswers == {"blank", "timeout", "denied", "good"}

\* One report line: its kind and the branch or version it names
Line(kind, b, v) == [kind |-> kind, branch |-> b, version |-> v]

\* sys.exit(code) after the report lines were printed
Exit(how, code, lines) ==
    /\ pc' = "exit"
    /\ ending' = how
    /\ exit_code' = code
    /\ out' = out \cup lines

\* An exception that nothing catches: traceback, exit status 1
Uncaught == Exit("exception", 1, {Line("traceback", "", <<>>)})

\* gitgo lines 177-181
GitgoRepoCheck ==
    /\ pc = "start"
    /\ variant = "gitgo"
    /\ \E in_repo \in BOOLEAN :
         IF ~in_repo THEN Exit("not_repo", 1, {Line("not_repo", "", <<>>)})
         ELSE pc' = "version" /\ UNCHANGED <<ending, exit_code, out>>
    /\ UNCHANGED <<cfg_before, variant, tags, versionVars, msgVars, idVars, nfiles,
                   aiVars, repoVars, log>>

\* gup lines 158-167
GupRepoCheck ==
    /\ pc = "start"
    /\ variant = "gup"
    /\ \E in_repo \in BOOLEAN, dirty \in BOOLEAN :
         IF ~in_repo THEN Exit("not_repo", 1, {Line("not_repo", "", <<>>)})
         ELSE IF ~bootstrap /\ ~dirty
              THEN Exit("nothing", 0, {Line("nothing", "", <<>>)})
         ELSE pc' = "version" /\ UNCHANGED <<ending, exit_code, out>>
    /\ UNCHANGED <<cfg_before, variant, tags, versionVars, msgVars, idVars, nfiles,
                   aiVars, repoVars, log>>

\* gitgo lines 188-191, gup lines 180-183
Identity ==
    /\ pc = "identity"
    /\ LET r == read_identity(cfg_name, cfg_email, glob_name, glob_email)
       IN IF r[3] = "none"
          THEN \E t \in TypedIdentities :
                 /\ name' = prompt_identity(<<>>, <<>>, t[1], t[2])[1]
                 /\ email' = prompt_identity(<<>>, <<>>, t[1], t[2])[2]
                 /\ source' = "prompted"
          ELSE /\ name' = r[1]
               /\ email' = r[2]
               /\ source' = r[3]
    /\ pc' = "stage"
    /\ UNCHANGED <<cfg_before, variant, tags, versionVars, msgVars, cfg_name, cfg_email,
                   glob_name, glob_email, nfiles, aiVars, repoVars, endVars>>

\* gitgo lines 193-197, gup lines 188-193
Stage ==
    /\ pc = "stage"
    /\ \E n \in FileCounts :
         /\ nfiles' = n
         /\ IF n = 0 THEN Exit("nothing", 0, {Line("nothing", "", <<>>)})
            ELSE /\ pc' = IF variant = "gitgo" THEN "message" ELSE "models"
                 /\ UNCHANGED <<ending, exit_code, out>>
    /\ UNCHANGED <<cfg_before, variant, tags, versionVars, msgVars, idVars, aiVars,
                   repoVars, log>>

\* gitgo lines 199-228: the typed message, the review screen, Enter
GitgoMessage ==
    /\ pc = "message"
    /\ variant = "gitgo"
    /\ \E typed \in TypedMessages :
         commit_msg' = enforce_summary_limit(strip(typed), SummaryLimit)
    /\ pc' = "commit"
    /\ UNCHANGED <<cfg_before, variant, tags, versionVars, raw, runVars>>

\* What pick_model can return for the answers the user may type
Picks(ms) == {pick_model(ms, c, sel) : c \in PickAnswers, sel \in SelAnswers}

\* What generate_message can return, with how the call ended, for the
\* things the external tool may do
Generations(cur, mdl, tmo) ==
    { <<generate_message(cur, mdl, tmo, res, output),
        attempt_outcome(mdl, tmo, res, output)>> :
          res \in AiResults, output \in AiOutputs }

\* gup lines 198-206
GupSelectModel ==
    /\ pc = "models"
    /\ variant = "gup"
    /\ timeout' = IF cfg_timeout # <<>> THEN cfg_timeout ELSE DefaultTimeout
    /\ IF cfg_model # <<>>
       THEN /\ model' = IF \E i \in 1..Len(models) : models[i] = cfg_model
                        THEN cfg_model ELSE <<>>
            /\ pc' = "draft"
            /\ UNCHANGED <<cfg_model, endVars>>
       ELSE \E m \in Picks(models) :
              IF m = Raise
              THEN /\ Uncaught
                   /\ UNCHANGED <<model, cfg_model, log>>
              ELSE /\ model' = m
                   /\ cfg_model' = m
                   /\ pc' = "draft"
                   /\ UNCHANGED endVars
    /\ UNCHANGED <<cfg_before, variant, tags, versionVars, msgVars, idVars, nfiles,
                   models, cfg_timeout, ai_warning, attempt, repoVars>>

\* gup lines 211-215: the deterministic message becomes the draft
GupDraft ==
    /\ pc = "draft"
    /\ variant = "gup"
    /\ commit_msg' = fallback_message(bootstrap, nfiles)
    /\ pc' = "compose"
    /\ UNCHANGED <<cfg_before, variant, tags, versionVars, raw, runVars>>

\* gup lines 217-253: the first generate_message call, which works on the
\* draft, and the warning (which reads model['id'])
GupCompose ==
    /\ pc = "compose"
    /\ variant = "gup"
    /\ \E g \in Generations(commit_msg, model, timeout) :
         /\ commit_msg' = g[1][1]
         /\ ai_warning' = g[1][2]
         /\ attempt' = g[2]
         /\ IF g[1][2] # "" /\ model = <<>>
            THEN Uncaught /\ UNCHANGED log
            ELSE pc' = "review" /\ UNCHANGED endVars
    /\ UNCHANGED <<cfg_before, variant, tags, versionVars, raw, idVars, nfiles, models,
                   cfg_model, cfg_timeout, model, timeout, repoVars>>

\* gup review loop, choice 1 (lines 270-271)
GupProceed ==
    /\ pc = "review"
    /\ pc' = "commit"
    /\ attempt' = ""
    /\ UNCHANGED <<cfg_before, variant, tags, versionVars, msgVars, idVars, nfiles,
                   models, cfg_model, cfg_timeout, model, timeout,
                   ai_warning, repoVars, endVars>>

\* gup review loop, choice 2 (lines 272-276)
GupEditIdentity ==
    /\ pc = "review"
    /\ \E t \in TypedIdentities :
         /\ name' = prompt_identity(name, email, t[1], t[2])[1]
         /\ email' = prompt_identity(name, email, t[1], t[2])[2]
    /\ cfg_name' = name'
    /\ cfg_email' = email'
    /\ source' = "repo"
    /\ attempt' = ""
    /\ UNCHANGED <<cfg_before, variant, pc, tags, versionVars, msgVars, glob_name,
                   glob_email, nfiles, models, cfg_model, cfg_timeout, model,
                   timeout, ai_warning, repoVars, endVars>>

\* An edit that takes the typed message as it is
GupEditMessageRaw ==
    /\ pc = "review"
    /\ \E typed \in TypedMessages : commit_msg' = strip(typed)
    /\ attempt' = ""
    /\ UNCHANGED <<cfg_before, variant, pc, tags, versionVars, raw, idVars, nfiles,
                   models, cfg_model, cfg_timeout, model, timeout,
                   ai_warning, repoVars, endVars>>

\* gup review loop, choice 3 (lines 277-279)
GupEditMessage ==
    /\ pc = "review"
    /\ \E typed \in TypedMessages :
         commit_msg' = enforce_summary_limit(strip(typed), SummaryLimit)
    /\ attempt' = ""
    /\ UNCHANGED <<cfg_before, variant, pc, tags, versionVars, raw, idVars, nfiles,
                   models, cfg_model, cfg_timeout, model, timeout,
                   ai_warning, repoVars, endVars>>

\* gup review loop, choice 4 (lines 280-286)
GupRegenerate ==
    /\ pc = "review"
    /\ \E m \in Picks(models) :
         IF m = Raise
         THEN /\ Uncaught
              /\ attempt' = ""
              /\ UNCHANGED <<model, cfg_model, timeout, cfg_timeout,
                             commit_msg, ai_warning, log>>
         ELSE \E t \in {configure_timeout(timeout, typed) :
                            typed \in TimeoutAnswers} :
              \E g \in Generations(commit_msg, m, t) :
                /\ model' = m
                /\ cfg_model' = m
                /\ timeout' = t
                /\ cfg_timeout' = IF t # <<>> THEN t ELSE cfg_timeout
                /\ commit_msg' = g[1][1]
                /\ ai_warning' = g[1][2]
                /\ attempt' = g[2]
                /\ UNCHANGED <<pc, endVars>>
    /\ UNCHANGED <<cfg_before, variant, tags, versionVars, raw, idVars, nfiles, models,
                   repoVars>>

\* A cancel that also forgets the saved model
GupCancelUnsetsModel ==
    /\ pc = "review"
    /\ Exit("cancel", 0, {})
    /\ attempt' = ""
    /\ cfg_model' = <<>>
    /\ UNCHANGED <<cfg_before, variant, tags, versionVars, msgVars, idVars, nfiles,
                   models, cfg_timeout, model, timeout,
                   ai_warning, repoVars, log>>

\* gup review loop, choice 5 (lines 287-288)
GupCancel ==
    /\ pc = "review"
    /\ Exit("cancel", 0, {})
    /\ attempt' = ""
    /\ UNCHANGED <<cfg_before, variant, tags, versionVars, msgVars, idVars, nfiles,
                   models, cfg_model, cfg_timeout, model, timeout,
                   ai_warning, repoVars, log>>

\* gup review loop, any other answer: the loop shows the screen again
GupOtherChoice ==
    /\ pc = "review"
    /\ attempt' = ""
    /\ UNCHANGED <<cfg_before, variant, pc, tags, versionVars, msgVars, idVars, nfiles,
                   models, cfg_model, cfg_timeout, model, timeout,
                   ai_warning, repoVars, endVars>>

\* gitgo line 230, gup line 308: git commit; check_call raises on failure
Commit ==
    /\ pc = "commit"
    /\ log' = Append(log, "commit")
    /\ \E ok \in BOOLEAN :
         IF ok THEN /\ committed' = TRUE
                    /\ pc' = "tag"
                    /\ UNCHANGED <<ending, exit_code, out>>
         ELSE Uncaught /\ UNCHANGED committed
    /\ UNCHANGED <<cfg_before, variant, tags, versionVars, msgVars, idVars, nfiles,
                   aiVars, tagged, has_origin, branch, pushed_branch,
                   pushed_tag>>

\* A tag step whose failure is not noticed (call in place of check_call):
\* the run goes on to the next step either way.
TagUnchecked ==
    /\ pc = "tag"
    /\ log' = Append(log, "tag")
    /\ \E ok \in BOOLEAN :
         /\ IF ok /\ next_version \notin tags
            THEN tagged' = TRUE /\ tags' = tags \cup {next_version}
            ELSE UNCHANGED <<tagged, tags>>
         /\ pc' = IF variant = "gitgo" THEN "remote" ELSE "push_branch"
         /\ UNCHANGED <<ending, exit_code, out>>
    /\ UNCHANGED <<cfg_before, variant, versionVars, msgVars, idVars, nfiles, aiVars,
                   committed, has_origin, branch, pushed_branch, pushed_tag>>

\* gitgo line 231, gup line 309: git tag -a; it fails when the name is
\* taken, and check_call raises on failure
Tag ==
    /\ pc = "tag"
    /\ log' = Append(log, "tag")
    /\ \E ok \in BOOLEAN :
         IF ok /\ next_version \notin tags
         THEN /\ tagged' = TRUE
              /\ tags' = tags \cup {next_version}
              /\ pc' = IF variant = "gitgo" THEN "remote" ELSE "push_branch"
              /\ UNCHANGED <<ending, exit_code, out>>
         ELSE Uncaught /\ UNCHANGED <<tagged, tags>>
    /\ UNCHANGED <<cfg_before, variant, versionVars, msgVars, idVars, nfiles, aiVars,
                   committed, has_origin, branch, pushed_branch, pushed_tag>>

\* gitgo lines 236-255
GitgoRemote ==
    /\ pc = "remote"
    /\ variant = "gitgo"
    /\ IF has_origin
       THEN pc' = "push_branch" /\ UNCHANGED <<has_origin, endVars>>
       ELSE \E url \in UrlAnswers :
              IF url = "blank"
              THEN /\ Exit("local_only", 0,
                           {Line("local_only", "", next_version)})
                   /\ UNCHANGED <<has_origin, log>>
              ELSE IF url # "good"
              THEN /\ Exit("remote_invalid", 1,
                           {Line("remote_invalid", "", <<>>)})
                   /\ UNCHANGED <<has_origin, log>>
              ELSE /\ has_origin' = TRUE
                   /\ pc' = "push_branch"
                   /\ UNCHANGED endVars
    /\ UNCHANGED <<cfg_before, variant, tags, versionVars, msgVars, idVars, nfiles,
                   aiVars, committed, tagged, branch, pushed_branch,
                   pushed_tag>>

\* safe("git branch --show-current") or "main"
branch_or_main(cur) == IF cur = "" THEN "main" ELSE cur

\* gitgo lines 263-268: the report of a failed push
PushFailedReport(b, v) ==
    { Line("push_failed", "", <<>>),
      Line("safe_locally", "", <<>>),
      Line("git push -u origin", b, <<>>),
      Line("git push origin", "", v) }

\* gitgo lines 257-260 and 262-268
GitgoPushBranch ==
    /\ pc = "push_branch"
    /\ variant = "gitgo"
    /\ \E cur \in Branches : branch' = branch_or_main(cur)
    /\ log' = Append(log, "push_branch")
    /\ \E ok \in BOOLEAN :
         IF ok THEN /\ pushed_branch' = TRUE
                    /\ pc' = "push_tag"
                    /\ UNCHANGED <<ending, exit_code, out>>
         ELSE /\ Exit("push_failed", 1, PushFailedReport(branch', next_version))
              /\ UNCHANGED pushed_branch
    /\ UNCHANGED <<cfg_before, variant, tags, versionVars, msgVars, idVars, nfiles,
                   aiVars, committed, tagged, has_origin, pushed_tag>>

\* A tag push whose failure is not noticed
GitgoPushTagUnchecked ==
    /\ pc = "push_tag"
    /\ variant = "gitgo"
    /\ log' = Append(log, "push_tag")
    /\ \E ok \in BOOLEAN :
         /\ pushed_tag' = ok
         /\ Exit("released", 0, {Line("released", "", next_version)})
    /\ UNCHANGED <<cfg_before, variant, tags, versionVars, msgVars, idVars, nfiles,
                   aiVars, committed, tagged, has_origin, branch,
                   pushed_branch>>

\* gitgo lines 261-270
GitgoPushTag ==
    /\ pc = "push_tag"
    /\ variant = "gitgo"
    /\ log' = Append(log, "push_tag")
    /\ \E ok \in BOOLEAN :
         IF ok THEN /\ pushed_tag' = TRUE
                    /\ Exit("released", 0, {Line("released", "", next_version)})
         ELSE /\ Exit("push_failed", 1, PushFailedReport(branch, next_version))
              /\ UNCHANGED pushed_tag
    /\ UNCHANGED <<cfg_before, variant, tags, versionVars, msgVars, idVars, nfiles,
                   aiVars, committed, tagged, has_origin, branch,
                   pushed_branch>>

\* gup lines 311-312: run() raises on failure and nothing catches it
GupPushBranch ==
    /\ pc = "push_branch"
    /\ variant = "gup"
    /\ \E cur \in Branches : branch' = branch_or_main(cur)
    /\ log' = Append(log, "push_branch")
    /\ \E ok \in BOOLEAN :
         IF ok THEN /\ pushed_branch' = TRUE
                    /\ pc' = "push_tag"
                    /\ UNCHANGED <<ending, exit_code, out>>
         ELSE Uncaught /\ UNCHANGED pushed_branch
    /\ UNCHANGED <<cfg_before, variant, tags, versionVars, msgVars, idVars, nfiles,
                   aiVars, committed, tagged, has_origin, pushed_tag>>

\* gup lines 313-315
GupPushTag ==
    /\ pc = "push_tag"
    /\ variant = "gup"
    /\ log' = Append(log, "push_tag")
    /\ \E ok \in BOOLEAN :
         IF ok THEN /\ pushed_tag' = TRUE
                    /\ Exit("released", 0, {Line("released", "", next_version)})
         ELSE Uncaught /\ UNCHANGED pushed_tag
    /\ UNCHANGED <<cfg_before, variant, tags, versionVars, msgVars, idVars, nfiles,
                   aiVars, committed, tagged, has_origin, branch,
                   pushed_branch>>

\* The repositories and configurations a run starts in
StartRepos ==
    { <<TRUE, <<>>, {}>>,
      <<FALSE, <<>>, {}>>,
      <<FALSE, Fmt(0, 0, 1), {Fmt(0, 0, 1), Fmt(0, 0, 2)}>> }
StartIdentities(v) ==
    IF v = "gitgo"
    THEN { <<Unset, Unset, Unset, Unset>>, <<<<"L">>, <<"l">>, <<"G">>, <<"g">>>> }
    ELSE { <<<<"L">>, <<"l">>, <<"G">>, <<"g">>>> }
StartModels ==
    { <<<<GeminiFlash, Gpt4, GptMini>>, <<>>>>,
      <<<<GeminiFlash, Gpt4, GptMini>>, GptMini>>,
      <<<<Gpt4>>, OldModel>>,
      <<<<>>, <<>>>> }
StartTimeouts == { <<>> }

Init ==
    /\ variant \in {"gitgo", "gup"}
    /\ pc = "start"
    /\ \E r \in StartRepos :
         bootstrap = r[1] /\ describe = r[2] /\ tags = r[3]
    /\ last = <<>>
    /\ major = 0
    /\ minor = 0
    /\ patch = 0
    /\ next_version = <<>>
    /\ tested = 0
    /\ raw = <<>>
    /\ commit_msg = <<>>
    /\ \E i \in StartIdentities(variant) :
         /\ cfg_name = i[1]
         /\ cfg_email = i[2]
         /\ glob_name = i[3]
         /\ glob_email = i[4]
    /\ name = <<>>
    /\ email = <<>>
    /\ source = ""
    /\ nfiles = 0
    /\ IF variant = "gup"
       THEN /\ \E m \in StartModels : models = m[1] /\ cfg_model = m[2]
            /\ cfg_timeout \in StartTimeouts
            /\ has_origin = TRUE
       ELSE /\ models = <<>>
            /\ cfg_model = <<>>
            /\ cfg_timeout = <<>>
            /\ has_origin \in BOOLEAN
    /\ model = <<>>
    /\ timeout = <<>>
    /\ ai_warning = ""
    /\ attempt = ""
    /\ committed = FALSE
    /\ tagged = FALSE
    /\ branch = ""
    /\ pushed_branch = FALSE
    /\ pushed_tag = FALSE
    /\ ending = ""
    /\ exit_code = -1
    /\ out = {}
    /\ log = <<>>
    /\ cfg_before = Config

Next ==
    \/ GitgoRepoCheck
    \/ GupRepoCheck
    \/ GitgoVersion
    \/ GupVersion
    \/ Identity
    \/ Stage
    \/ GitgoMessage
    \/ GupSelectModel
    \/ GupDraft
    \/ GupCompose
    \/ GupProceed
    \/ GupEditIdentity
    \/ GupEditMessage
    \/ GupRegenerate
    \/ GupCancel
    \/ GupOtherChoice
    \/ Commit
    \/ Tag
    \/ GitgoRemote
    \/ GitgoPushBranch
    \/ GitgoPushTag
    \/ GupPushBranch
    \/ GupPushTag

Spec == Init /\ [][Next]_vars

\* ---------------------------------------------------------------------
\* gup runs that start with a saved timeout
\* ---------------------------------------------------------------------
\* The variables of a run that has not begun
RunStart ==
    /\ pc = "start"
    /\ last = <<>>
    /\ major = 0
    /\ minor = 0
    /\ patch = 0
    /\ next_version = <<>>
    /\ tested = 0
    /\ raw = <<>>
    /\ commit_msg = <<>>
    /\ name = <<>>
    /\ email = <<>>
    /\ source = ""
    /\ nfiles = 0
    /\ model = <<>>
    /\ timeout = <<>>
    /\ ai_warning = ""
    /\ attempt = ""
    /\ committed = FALSE
    /\ tagged = FALSE
    /\ branch = ""
    /\ pushed_branch = FALSE
    /\ pushed_tag = FALSE
    /\ ending = ""
    /\ exit_code = -1
    /\ out = {}
    /\ log = <<>>
    /\ cfg_before = Config

\* Values that gup.timeout may hold when a run begins: git stores any
\* text the user gave it
StoredTimeouts == { <<"7">>, <<"9", "0">>, <<"x">> }

GupInit ==
    /\ variant = "gup"
    /\ bootstrap = FALSE
    /\ describe = <<>>
    /\ tags = {}
    /\ cfg_name = <<"L">>
    /\ cfg_email = <<"l">>
    /\ glob_name = <<"G">>
    /\ glob_email = <<"g">>
    /\ models = <<GeminiFlash, Gpt4, GptMini>>
    /\ cfg_model = GptMini
    /\ cfg_timeout \in StoredTimeouts
    /\ has_origin = TRUE
    /\ RunStart

GupNext ==
    \/ GupRepoCheck
    \/ GupVersion
    \/ Identity
    \/ Stage
    \/ GupSelectModel
    \/ GupDraft
    \/ GupCompose
    \/ GupProceed
    \/ GupEditIdentity
    \/ GupEditMessage
    \/ GupRegenerate
    \/ GupCancel
    \/ GupOtherChoice
    \/ Commit
    \/ Tag
    \/ GupPushBranch
    \/ GupPushTag

SpecGup == GupInit /\ [][GupNext]_vars

\* ---------------------------------------------------------------------
\* Runs up to staging, from every state of the identity keys
\* ---------------------------------------------------------------------
\* What a scope may hold for user.name and user.email: nothing, a text, or
\* (for the repository's user.name) an empty text
StoredIdentities ==
    { <<ln, le, gn, ge>> : ln \in {Unset, <<>>, <<"L">>},
                           le \in {Unset, <<"l">>},
                           gn \in {Unset, <<"G">>},
                           ge \in {Unset, <<"g">>} }

IdentityInit ==
    /\ variant \in {"gitgo", "gup"}
    /\ bootstrap = FALSE
    /\ describe = <<>>
    /\ tags = {}
    /\ \E i \in StoredIdentities :
         /\ cfg_name = i[1]
         /\ cfg_email = i[2]
         /\ glob_name = i[3]
         /\ glob_email = i[4]
    /\ models = <<>>
    /\ cfg_model = <<>>
    /\ cfg_timeout = <<>>
    /\ has_origin = TRUE
    /\ RunStart

IdentityNext ==
    \/ GitgoRepoCheck
    \/ GupRepoCheck
    \/ GitgoVersion
    \/ GupVersion
    \/ Identity
    \/ Stage

SpecIdentity == IdentityInit /\ [][IdentityNext]_vars

\* ---------------------------------------------------------------------
\* Properties of the release run
\* ---------------------------------------------------------------------
WriteSteps == <<"commit", "tag", "push_branch", "push_tag">>
Attempted(step) == \E i \in 1..Len(log) : log[i] = step

\* The run ended because a push failed after the commit and the tag of
\* this run were made.
PushFailedAfterLocal ==
    /\ pc = "exit"
    /\ committed
    /\ tagged
    /\ \/ log[Len(log)] = "push_branch" /\ ~pushed_branch
       \/ log[Len(log)] = "push_tag" /\ ~pushed_tag

\* C7: in both tools a push that fails after the commit and the tag ends
\* the run with a non-zero status, leaves commit and tag in place, and
\* reports that they are safe locally with the two follow-up push
\* commands for the actual branch and version.
C7_PushFailureReported ==
    PushFailedAfterLocal
        => /\ exit_code > 0
           /\ next_version \in tags
           /\ Line("safe_locally", "", <<>>) \in out
           /\ Line("git push -u origin", branch, <<>>) \in out
           /\ Line("git push origin", "", next_version) \in out

\* C8: the write steps happen in the order commit, tag, branch push, tag
\* push; a failed commit or tag ends the run at once, so a push is
\* attempted only after both succeeded, and the tag push only after the
\* branch push.
C8_WriteOrder ==
    /\ Len(log) <= Len(WriteSteps)
    /\ log = SubSeq(WriteSteps, 1, Len(log))
    /\ (Attempted("commit") /\ ~committed)
           => (pc = "exit" /\ exit_code > 0 /\ log = <<"commit">>)
    /\ (Attempted("tag") /\ ~tagged)
           => (pc = "exit" /\ exit_code > 0 /\ log = <<"commit", "tag">>)
    /\ Attempted("push_branch") => (committed /\ tagged)
    /\ Attempted("push_tag") => (committed /\ tagged /\ pushed_branch)
    /\ (pushed_branch \/ pushed_tag) => (committed /\ tagged)
    /\ pushed_tag => pushed_branch

C8_Witness ==
    /\ pc = "exit"
    /\ ending = "exception"
    /\ committed
    /\ ~tagged
    /\ log = <<"commit", "tag">>
    /\ ~pushed_branch
    /\ ~pushed_tag

\* C9: a gitgo run that ends with a remote-validation failure has exit
\* status 1 and has created no commit and no tag.
C9_RemoteFailureBeforeCommit ==
    (variant = "gitgo" /\ ending = "remote_invalid")
        => (exit_code = 1 /\ ~committed /\ ~tagged /\ log = <<>>)

\* The ways an attempt at external generation fails
Failures == {"timeout", "error", "empty"}

NothingReleased ==
    /\ ~committed
    /\ ~tagged
    /\ ~pushed_branch
    /\ ~pushed_tag
    /\ log = <<>>

\* C11 (as claimed): a gup run that ends with cancel has exit status 0,
\* has made no commit, no tag and no push, and leaves the configuration
\* keys (user.name, user.email, gup.model, gup.timeout) as they were
\* before the run.
C11_CancelLeavesConfigUntouched ==
    (variant = "gup" /\ ending = "cancel")
        => /\ exit_code = 0
           /\ NothingReleased
           /\ Config = cfg_before

\* C11 (amended): a gup run that ends with cancel has exit status 0 and
\* has made no commit, no tag and no push; each configuration key holds
\* either its value from before the run or the value selected during the
\* run (the identity typed under edit identity, the model picked, the
\* timeout entered).
C11_CancelKeepsOnlyChosenConfig ==
    (variant = "gup" /\ ending = "cancel")
        => /\ exit_code = 0
           /\ NothingReleased
           /\ \/ cfg_name = cfg_before.name /\ cfg_email = cfg_before.email
              \/ cfg_name = name /\ cfg_email = email /\ source = "repo"
           /\ cfg_model \in {cfg_before.model, model}
           /\ cfg_timeout \in {cfg_before.timeout, timeout}

C11_Witness ==
    /\ variant = "gup"
    /\ ending = "cancel"
    /\ exit_code = 0
    /\ cfg_name # cfg_before.name
    /\ cfg_model # cfg_before.model
    /\ cfg_timeout # cfg_before.timeout

\* C12: the gup review loop is left only by proceed (on to the commit
\* step) or by cancel (exit status 0); every other step taken in the
\* loop, whatever its sub-steps do, comes back to the review screen.
C12_LoopLeftByProceedOrCancel ==
    [][(variant = "gup" /\ pc = "review")
          => \/ pc' = "review"
             \/ pc' = "commit"
             \/ pc' = "exit" /\ ending' = "cancel" /\ exit_code' = 0]_vars

\* ---------------------------------------------------------------------
\* Properties of the fallback message
\* ---------------------------------------------------------------------
SingleFileMessage ==
    <<"U", "p", "d", "a", "t", "e", " ", "p", "r", "o", "j", "e", "c", "t",
      " ", "c", "o", "n", "f", "i", "g", "u", "r", "a", "t", "i", "o", "n">>
InitialCommitMessage ==
    <<"I", "n", "i", "t", "i", "a", "l", " ", "c", "o", "m", "m", "i", "t">>

\* Where the number n is written in the message m (0 if nowhere)
CountAt(m, n) ==
    LET hits == {i \in 1..Len(m) :
                    /\ i + Len(Str(n)) - 1 <= Len(m)
                    /\ SubSeq(m, i, i + Len(Str(n)) - 1) = Str(n)}
    IN IF hits = {} THEN 0 ELSE SetMin(hits)

\* The wording around the count: the text before it and the text after it
Wording(m, n) ==
    <<SubSeq(m, 1, CountAt(m, n) - 1),
      SubSeq(m, CountAt(m, n) + Len(Str(n)), Len(m))>>

\* The draft is the fallback message and nothing has been asked of the
\* external tool yet
DraftJustMade ==
    /\ variant = "gup"
    /\ pc = "compose"

\* C13 (as claimed): the fallback message depends on the number n of
\* staged files only: the fixed single-file message for n = 1, a message
\* bearing the count for 2 <= n <= 5, and for n > 5 a message bearing the
\* count in a wording other than the one used for 2 <= n <= 5; it is the
\* draft before the external tool is first called.
C13_FallbackByCountThreeWay ==
    DraftJustMade
        => /\ attempt = ""
           /\ ai_warning = ""
           /\ nfiles = 1 => commit_msg = SingleFileMessage
           /\ nfiles >= 2 => CountAt(commit_msg, nfiles) > 0
           /\ nfiles > 5 => Wording(commit_msg, nfiles)
                                # Wording(fallback_message(bootstrap, 2), 2)

\* C13 (amended): the fallback message depends on whether the repository
\* has commits and on n: "Initial commit" in a repository without
\* commits; otherwise the fixed single-file message for n = 1 and, for
\* every n >= 2, one and the same wording around the count ("Update n
\* project files"); it is the draft before the external tool is first
\* called.
C13_FallbackByBootstrapAndCount ==
    DraftJustMade
        => /\ attempt = ""
           /\ ai_warning = ""
           /\ bootstrap => commit_msg = InitialCommitMessage
           /\ (~bootstrap /\ nfiles = 1) => commit_msg = SingleFileMessage
           /\ (~bootstrap /\ nfiles >= 2)
                 => /\ CountAt(commit_msg, nfiles) > 0
                    /\ Wording(commit_msg, nfiles)
                          = <<<<"U", "p", "d", "a", "t", "e", " ">>,
                              <<" ", "p", "r", "o", "j", "e", "c", "t", " ",
                                "f", "i", "l", "e", "s">>>>

C13_Witness ==
    /\ DraftJustMade
    /\ ~bootstrap
    /\ nfiles > 5
    /\ CountAt(commit_msg, nfiles) = 8

\* ---------------------------------------------------------------------
\* Properties of the timeout
\* ---------------------------------------------------------------------
\* The text t is an integer number of seconds between 1 and 60
WaitBoundOk(t) == IsInt(t) /\ 1 <= IntOf(t) /\ IntOf(t) <= 60

\* The latest step called the external tool and waited for it with
\* int(timeout) as the bound
Waited == attempt \in {"ok", "timeout", "empty"}

\* C14: in gup the bound of every wait for the external tool, and every
\* value that the run puts in gup.timeout, is an integer between 1 and 60,
\* whatever gup.timeout held before and whatever the user types.
C14_TimeoutWithinBounds ==
    variant = "gup"
        => /\ Waited => WaitBoundOk(timeout)
           /\ cfg_timeout # cfg_before.timeout => WaitBoundOk(cfg_timeout)

\* ---------------------------------------------------------------------
\* Properties of identity resolution
\* ---------------------------------------------------------------------
LocalHasIdentity == safe(cfg_name) # <<>> \/ safe(cfg_email) # <<>>
GlobalHasIdentity == safe(glob_name) # <<>> \/ safe(glob_email) # <<>>

\* The identity has just been resolved
Resolved == pc = "stage"

\* C15: the resolved name and email are the repository-scoped ones
\* whenever that scope has a name or an email, the global ones only when
\* the repository scope has neither, and the typed ones only when both
\* scopes have neither; the source names the scope they came from.
C15_IdentityPrecedence ==
    Resolved
        => IF LocalHasIdentity
           THEN /\ name = safe(cfg_name)
                /\ email = safe(cfg_email)
                /\ source = "repo"
           ELSE IF GlobalHasIdentity
           THEN /\ name = safe(glob_name)
                /\ email = safe(glob_email)
                /\ source = "global"
           ELSE source = "prompted"

\* ---------------------------------------------------------------------
\* Properties of the optional enhancement
\* ---------------------------------------------------------------------
Listed(m) == \E i \in 1..Len(models) : models[i] = m

\* The external tool is of no use to the run: it lists no model (it is
\* missing, or has none), or the model saved before the run is not listed
ToolGivesNothing ==
    \/ models = <<>>
    \/ cfg_before.model # <<>> /\ ~Listed(cfg_before.model)

\* The run ended with an uncaught exception before it showed the review
\* screen (a model is selected in every state of the review loop)
CrashedBeforeReview ==
    /\ pc = "exit"
    /\ ending = "exception"
    /\ nfiles > 0
    /\ log = <<>>
    /\ model = <<>>

\* C16: a gup run with staged changes for which the external tool gives
\* nothing does not end abnormally before the review loop.
C16_EnhancementOptional ==
    (variant = "gup" /\ ToolGivesNothing) => ~CrashedBeforeReview

\* ---------------------------------------------------------------------
\* Properties of the draft and of the final report
\* ---------------------------------------------------------------------
\* C17: in every state of a run of either tool the first line of the
\* draft message (a line as str.splitlines sees it) has at most 72
\* characters, so the message that is committed and tagged has too.
C17_DraftSummaryBounded == Len(FirstLine(commit_msg)) <= SummaryLimit

C17_Witness ==
    /\ variant = "gup"
    /\ pc = "commit"
    /\ attempt = ""
    /\ Len(FirstLine(commit_msg)) = SummaryLimit - 1
    /\ Len(splitlines(commit_msg)) = 3

\* C18: next_free_version ends, and it has handed at most (number of
\* existing tags + 1) candidates to tag_exists.
C18_TestsAtMostTagsPlusOne ==
    (variant = "gitgo" /\ pc = "identity")
        => /\ tested >= 1
           /\ tested <= Cardinality(tags) + 1

C18_Witness ==
    /\ variant = "gitgo"
    /\ pc = "identity"
    /\ Cardinality(tags) >= 2
    /\ tested = Cardinality(tags) + 1

\* The report "Released <version>" has been printed
ReleasedReported == \E l \in out : l.kind = "released"

\* C19: "Released <version>" is printed only in a run in which the commit,
\* the tag, the branch push and the tag push all succeeded, in that
\* order, for the version computed at the start of the run; once computed
\* the version never changes.
C19_ReleasedOnlyAfterAllFour ==
    /\ [](ReleasedReported
            => /\ ending = "released"
               /\ exit_code = 0
               /\ committed
               /\ tagged
               /\ pushed_branch
               /\ pushed_tag
               /\ log = WriteSteps
               /\ next_version \in tags
               /\ next_version = sequencer(variant, bootstrap, describe,
                                           tags \ {next_version})
               /\ \A l \in out : l.kind = "released"
                                     => l.version = next_version)
    /\ [][next_version # <<>> => next_version' = next_version]_vars

C19_Witness ==
    /\ ReleasedReported
    /\ variant = "gitgo"
    /\ pushed_tag
    /\ next_version = Fmt(0, 0, 3)

====
